---------------------------- MODULE Spec2Model ----------------------------
(***************************************************************************)
(* WebUiGeminiHandler (src/api/providers/web-ui-gemini.ts): the session    *)
(* state of one handler instance, the initialization attempts it starts,   *)
(* the browser and page handles those attempts obtain, and the calls       *)
(* (_ensureInitialized, createMessage, dispose) that run against it.       *)
(*                                                                         *)
(* Scheduling is JavaScript's: one action is the code that runs between    *)
(* two suspension points.  A continuation that is already runnable when a  *)
(* promise settles (a microtask) runs before any I/O completion, event or  *)
(* new call: see MicrotaskPending.                                         *)
(***************************************************************************)
EXTENDS Integers, Sequences, FiniteSets, TLC

\* ---- bounds of the model ----
MaxCalls == 3        \* calls in one behaviour of overlapping callers
MaxActive == 2       \* calls that have not returned at the same time
MaxRequests == 2     \* calls in one behaviour of a caller that awaits each
MaxFaults == 1       \* unexpected closes, crashes, drops, breaks and resets
MaxContainers == 2   \* model-response elements the pages ever render

NULL == 0

Calls == 1..MaxCalls
\* An _initializeInternal sequence is named by the call that started it, a
\* browser handle by the sequence whose puppeteer.connect returned it, a page
\* handle by the sequence that found or opened it.
Inits == Calls
Handles == Calls

VARIABLES
    \* the handler's fields (lines 44-47)
    isInitialized, browser, page, initializationPromise,
    \* _initializeInternal sequences: position, failure kind, handle an awaited
    \* operation was issued on
    ipc, ierr, ibrowser, ipage,
    \* Browser objects: isConnected(), 'disconnected' listener registered,
    \* 'disconnected' emitted and not yet run, disconnect() will reject
    bconn, bhand, bpend, bstuck,
    \* Page objects: state, browser it lives in, close/error listeners
    \* registered, close/error emitted and not yet run
    pst, pbrowser, phand, ppend,
    \* calls: kind, position, awaited attempt, page captured at line 210,
    \* currentInitialResponseCount, newModelResponseElement, chunks yielded,
    \* error thrown
    nCalls, ckind, cpc, cawait, cpage, cn0, csel, cchunks, cerr,
    \* the page's document: model-response elements per page handle
    dom, nCont,
    nFaults,
    \* history, for the properties: the calls whose _ensureInitialized was
    \* pending when the call was issued, whether the call before it failed
    \* on the poll's deadline, the elements rendered before line 235 ran,
    \* the I/O steps an attempt has issued, kept until it leaves its try
    \* block, whether the 'disconnected' listener
    \* ran on a ready session ("fired": no call was issued since, "next": the
    \* latest call is the first one issued since)
    cpeers, cafter, cmark, isteps, sinceDisconnected,
    \* a call of one of the functions that do not touch the session
    \* (decodeXmlEntities, the prompt encoding of createMessage, countTokens):
    \* its argument, its result
    fin, fout

sessVars == <<isInitialized, browser, page, initializationPromise>>
initVars == <<ipc, ierr, ibrowser, ipage>>
browserVars == <<bconn, bhand, bpend, bstuck>>
pageVars == <<pst, pbrowser, phand, ppend>>
callVars == <<nCalls, ckind, cpc, cawait, cpage, cn0, csel, cchunks, cerr>>
domVars == <<dom, nCont>>
histVars == <<cpeers, cafter, cmark, isteps, sinceDisconnected>>
funVars == <<fin, fout>>
vars == <<sessVars, initVars, browserVars, pageVars, callVars, domVars, nFaults, histVars,
          funVars>>

\* ---- the handler's fields as one value, and the code that rewrites them ----

\* The fields of lines 44-47 together with isConnected() of every Browser.
Session ==
    [init |-> isInitialized, page |-> page, browser |-> browser,
     promise |-> initializationPromise, conn |-> bconn]

Commit(s) ==
    /\ isInitialized' = s.init
    /\ page' = s.page
    /\ browser' = s.browser
    /\ initializationPromise' = s.promise
    /\ bconn' = s.conn

\* page.isClosed(); a crashed page does not report closed.
IsClosed(p) == pst[p] = "closed"

\* An operation issued on page p can complete: the page is neither closed nor
\* crashed and the connection it is driven through is up.
PageUsable(p) == pst[p] = "live" /\ bconn[pbrowser[p]]

\* The 'disconnected' listener without line 129.
DisconnectedListenerKeepsFlag(s) ==
    [s EXCEPT !.browser = NULL, !.page = NULL]

\* lines 127-132: the 'disconnected' listener.
DisconnectedListener(s) ==
    [s EXCEPT !.init = FALSE, !.browser = NULL, !.page = NULL]

\* lines 149-161: the 'close' and the 'error' listener (the same assignments).
PageListener(s) ==
    [s EXCEPT !.page = NULL, !.init = FALSE]

\* browser.disconnect() on handle b: the connection is closed and the
\* 'disconnected' event is emitted to the listeners registered on b.  A
\* disconnect() that rejects leaves the connection as it is; the rejection
\* is caught at lines 193-199.
Disconnect(s, b) ==
    LET s1 == [s EXCEPT !.conn[b] = FALSE]
    IN  IF bstuck[b] THEN s
        ELSE IF bhand[b] THEN DisconnectedListener(s1) ELSE s1

\* _cleanupPuppeteerResources without line 201.
CleanupPuppeteerResourcesKeepsBrowser(s) ==
    LET s1 == [s EXCEPT !.init = FALSE, !.page = NULL]
    IN  IF s1.browser # NULL /\ s1.conn[s1.browser]
        THEN Disconnect(s1, s1.browser)
        ELSE s1

\* lines 186-203: _cleanupPuppeteerResources.
CleanupPuppeteerResources(s) ==
    LET s1 == [s EXCEPT !.init = FALSE, !.page = NULL]
        s2 == IF s1.browser # NULL /\ s1.conn[s1.browser]
              THEN Disconnect(s1, s1.browser)
              ELSE s1
    IN  [s2 EXCEPT !.browser = NULL]

\* lines 76-82: the fast path of _ensureInitialized.
FastPath(s) ==
    /\ s.init
    /\ s.page # NULL
    /\ ~IsClosed(s.page)
    /\ s.browser # NULL
    /\ s.conn[s.browser]

\* line 85: whether _ensureInitialized starts _initializeInternal.
MustStartInit(s) == s.promise = NULL \/ ~s.init

\* The .catch handler without line 93.
EnsureInitializedCatchKeepsPromise(s) ==
    CleanupPuppeteerResources([s EXCEPT !.init = FALSE])

\* lines 87-96: the .catch handler on the promise of _initializeInternal.
EnsureInitializedCatch(s) ==
    CleanupPuppeteerResources([s EXCEPT !.init = FALSE, !.promise = NULL])

\* lines 174-183: the catch block of _initializeInternal.
InitializeInternalCatch(s) == CleanupPuppeteerResources(s)

\* lines 387-401: dispose once the awaited promise (if any) has settled.
DisposeTeardown(s) ==
    CleanupPuppeteerResources([s EXCEPT !.promise = NULL])

\* line 318: the liveness test in the catch block of createMessage.
HandlesDead(s) ==
    \/ s.page # NULL /\ IsClosed(s.page)
    \/ s.browser # NULL /\ ~s.conn[s.browser]

\* The catch block of createMessage without the test of line 318.
CreateMessageCatchAlwaysResets(s) ==
    [s EXCEPT !.init = FALSE, !.promise = NULL]

\* lines 311-323: the catch block of createMessage.
CreateMessageCatch(s) ==
    IF HandlesDead(s) THEN [s EXCEPT !.init = FALSE, !.promise = NULL] ELSE s

\* ---- text (a string is a sequence of one-character strings) ----

IsPrefixAt(s, pat, k) ==
    /\ k + Len(pat) - 1 <= Len(s)
    /\ \A j \in 1..Len(pat) : s[k + j - 1] = pat[j]

\* String.prototype.replace with a global pattern: every occurrence of pat,
\* found left to right without overlap, becomes rep.
RECURSIVE ReplaceFrom(_, _, _, _)
ReplaceFrom(s, pat, rep, k) ==
    IF k > Len(s) THEN <<>>
    ELSE IF IsPrefixAt(s, pat, k)
         THEN rep \o ReplaceFrom(s, pat, rep, k + Len(pat))
         ELSE <<s[k]>> \o ReplaceFrom(s, pat, rep, k + 1)

ReplaceAll(s, pat, rep) == ReplaceFrom(s, pat, rep, 1)

\* lines 29-37: decodeXmlEntities, the five replacements in the order written.
decodeXmlEntities(encodedString) ==
    IF encodedString = <<>> THEN <<>>
    ELSE LET r1 == ReplaceAll(encodedString, <<"&", "l", "t", ";">>, <<"<">>)
             r2 == ReplaceAll(r1, <<"&", "g", "t", ";">>, <<">">>)
             r3 == ReplaceAll(r2, <<"&", "a", "m", "p", ";">>, <<"&">>)
             r4 == ReplaceAll(r3, <<"&", "q", "u", "o", "t", ";">>, <<"\"">>)
         IN  ReplaceAll(r4, <<"&", "a", "p", "o", "s", ";">>, <<"'">>)

WhiteSpace == {" ", "\n", "\t"}

\* String.prototype.trim.
RECURSIVE TrimStart(_)
TrimStart(s) ==
    IF s # <<>> /\ Head(s) \in WhiteSpace THEN TrimStart(Tail(s)) ELSE s

RECURSIVE TrimEnd(_)
TrimEnd(s) ==
    IF s # <<>> /\ s[Len(s)] \in WhiteSpace THEN TrimEnd(SubSeq(s, 1, Len(s) - 1)) ELSE s

Trim(s) == TrimEnd(TrimStart(s))

\* ---- the page's document ----

\* A model-response element is named by the order in which the application
\* rendered it; dom[p] lists the elements of page p in document order.

\* innerText of the panel of element id: what the application rendered there.
InnerText(id) ==
    CASE id = 1 -> <<" ", "a", "&", "l", "t", ";", "\n">>
      [] id = 2 -> <<"&", "a", "m", "p", ";", "l", "t", ";">>
      [] OTHER -> [k \in 1..id |-> "c"]

\* ---- scheduling ----

InFlightPcs == {"discover", "connect", "version", "pages", "newPage", "goto", "waitSel"}
InFlight(i) == ipc[i] \in InFlightPcs

MicrotaskPcs == {"resumeOk", "resumeErr", "ensured"}
\* Some call's continuation is runnable: it runs before anything else does.
MicrotaskPending == \E c \in Calls : cpc[c] \in MicrotaskPcs
NextMicrotask == CHOOSE c \in Calls : cpc[c] \in MicrotaskPcs /\ \A d \in Calls : cpc[d] \in MicrotaskPcs => c <= d

EnsurePending(c) == cpc[c] \in {"awaitInit", "resumeOk", "resumeErr"} /\ ckind[c] # "dispose"
CallActive(c) == cpc[c] \notin {"idle", "done", "failed", "gone"}

CanStartCall ==
    /\ ~MicrotaskPending
    /\ nCalls < MaxCalls
    /\ Cardinality({c \in Calls : CallActive(c)}) < MaxActive

\* The callers awaiting attempt i are resumed with its outcome.
WakeWaiters(i, to) ==
    [c \in Calls |-> IF cpc[c] = "awaitInit" /\ cawait[c] = i THEN to ELSE cpc[c]]

\* What awaiting the promise of attempt j does to the caller.
AwaitPc(j) ==
    CASE ipc[j] = "resolved" -> "resumeOk"
      [] ipc[j] = "rejected" -> "resumeErr"
      [] OTHER -> "awaitInit"

\* lines 44-47: the handler as constructed, nothing connected, no call made.
InitHandler ==
    /\ isInitialized = FALSE /\ browser = NULL /\ page = NULL
    /\ initializationPromise = NULL
    /\ ipc = [i \in Inits |-> "idle"]
    /\ ierr = [i \in Inits |-> "none"]
    /\ ibrowser = [i \in Inits |-> NULL]
    /\ ipage = [i \in Inits |-> NULL]
    /\ bconn = [b \in Handles |-> FALSE]
    /\ bhand = [b \in Handles |-> FALSE]
    /\ bpend = [b \in Handles |-> FALSE]
    /\ bstuck = [b \in Handles |-> FALSE]
    /\ pst = [p \in Handles |-> "none"]
    /\ pbrowser = [p \in Handles |-> NULL]
    /\ phand = [p \in Handles |-> FALSE]
    /\ ppend = [p \in Handles |-> FALSE]
    /\ nCalls = 0
    /\ ckind = [c \in Calls |-> "none"]
    /\ cpc = [c \in Calls |-> "idle"]
    /\ cawait = [c \in Calls |-> NULL]
    /\ cpage = [c \in Calls |-> NULL]
    /\ cn0 = [c \in Calls |-> 0]
    /\ csel = [c \in Calls |-> 0]
    /\ cchunks = [c \in Calls |-> <<>>]
    /\ cerr = [c \in Calls |-> "none"]
    /\ dom = [p \in Handles |-> <<>>]
    /\ nCont = 0
    /\ nFaults = 0
    /\ cpeers = [c \in Calls |-> {}]
    /\ cafter = [c \in Calls |-> FALSE]
    /\ cmark = [c \in Calls |-> 0]
    /\ sinceDisconnected = "no"
    /\ isteps = [i \in Inits |-> {}]

NoArgument == [fn |-> "none"]
NoResult == [done |-> FALSE]

Init == InitHandler /\ fin = NoArgument /\ fout = NoResult

\* ---- a call is issued ----

Finished(c) == cpc[c] \in {"done", "failed"}

\* What the model keeps of the calls: a call that returned or threw is
\* forgotten when the next call is issued.
Forget(f, blank) == [c \in Calls |-> IF Finished(c) THEN blank ELSE f[c]]

\* The new call c is at position pc, awaiting attempt j (or none); it starts
\* attempt c or none.  A settled attempt that is no longer memoized is
\* forgotten.
Issue(c, kind, pc, j, starts) ==
    /\ nCalls' = c
    /\ ipc' = [i \in Inits |->
                 IF starts /\ i = c THEN "discover"
                 ELSE IF ipc[i] \in {"resolved", "rejected"} /\ initializationPromise' # i
                 THEN "idle"
                 ELSE ipc[i]]
    /\ ckind' = [Forget(ckind, "none") EXCEPT ![c] = kind]
    /\ cpc' = [Forget(cpc, "gone") EXCEPT ![c] = pc]
    /\ cawait' = [Forget(cawait, NULL) EXCEPT ![c] = j]
    /\ cpage' = Forget(cpage, NULL)
    /\ cn0' = Forget(cn0, 0)
    /\ csel' = Forget(csel, 0)
    /\ cchunks' = Forget(cchunks, <<>>)
    /\ cerr' = Forget(cerr, "none")
    /\ cpeers' = [d \in Calls |->
                    IF d = c /\ kind # "dispose" THEN {e \in Calls : EnsurePending(e)}
                    ELSE IF d = c \/ Finished(d) THEN {}
                    ELSE {e \in cpeers[d] : ~Finished(e)}]
    /\ cafter' = [Forget(cafter, FALSE) EXCEPT
                    ![c] = nCalls > 0 /\ cpc[nCalls] = "failed" /\ cerr[nCalls] = "timeout"]
    /\ cmark' = Forget(cmark, 0)
    /\ sinceDisconnected' = CASE sinceDisconnected = "fired" /\ kind = "dispose" -> "fired"
                              [] sinceDisconnected = "fired" /\ kind # "dispose" -> "next"
                              [] OTHER -> "no"
    /\ ierr' = [i \in Inits |-> "none"]
    /\ isteps' = [i \in Inits |-> IF InFlight(i) THEN isteps[i] ELSE {}]

\* ---- _ensureInitialized (lines 75-102) up to its await ----

\* lines 76-84: the session is ready and both handles report live: return.
EnsureFast(c, kind) ==
    /\ FastPath(Session)
    /\ UNCHANGED <<sessVars, bconn>>
    /\ Issue(c, kind, "ensured", NULL, FALSE)

\* lines 85-98 with line 108: start _initializeInternal, memoize it, await it.
EnsureStart(c, kind) ==
    /\ ~FastPath(Session)
    /\ MustStartInit(Session)
    /\ Commit([Session EXCEPT !.init = FALSE, !.promise = c])
    /\ Issue(c, kind, "awaitInit", c, TRUE)

\* lines 85 and 98: an attempt is memoized and the flag is set: await it.
EnsureJoin(c, kind) ==
    /\ ~FastPath(Session)
    /\ ~MustStartInit(Session)
    /\ UNCHANGED <<sessVars, bconn>>
    /\ Issue(c, kind, AwaitPc(initializationPromise), initializationPromise, FALSE)

EnsureInitialized(c, kind) ==
    EnsureFast(c, kind) \/ EnsureStart(c, kind) \/ EnsureJoin(c, kind)

\* A caller issues createMessage: line 206 calls _ensureInitialized.
StartCreateMessage ==
    /\ CanStartCall
    /\ EnsureInitialized(nCalls + 1, "create")
    /\ UNCHANGED <<ibrowser, ipage, bhand, bpend, bstuck, pageVars, domVars, nFaults,
                   funVars>>

\* A caller issues _ensureInitialized and nothing after it.
StartEnsureInitialized ==
    /\ CanStartCall
    /\ EnsureInitialized(nCalls + 1, "ensure")
    /\ UNCHANGED <<ibrowser, ipage, bhand, bpend, bstuck, pageVars, domVars, nFaults,
                   funVars>>

\* dispose (lines 387-403) up to its await; without a memoized promise it
\* tears down at once.
StartDispose ==
    /\ CanStartCall
    /\ IF initializationPromise # NULL
       THEN /\ UNCHANGED <<sessVars, bconn>>
            /\ Issue(nCalls + 1, "dispose", AwaitPc(initializationPromise),
                     initializationPromise, FALSE)
       ELSE /\ Commit(DisposeTeardown(Session))
            /\ Issue(nCalls + 1, "dispose", "done", NULL, FALSE)
    /\ UNCHANGED <<ibrowser, ipage, bhand, bpend, bstuck, pageVars, domVars, nFaults,
                   funVars>>

\* ---- continuations of the calls (microtasks) ----

\* A call ends by throwing.
Throw(c, err) ==
    /\ cpc' = [cpc EXCEPT ![c] = "failed"]
    /\ cerr' = [cerr EXCEPT ![c] = err]

\* lines 98-101: the awaited attempt fulfilled.
ResumeEnsureOk(c) ==
    /\ cpc[c] = "resumeOk" /\ ckind[c] # "dispose"
    /\ IF isInitialized
       THEN /\ cpc' = [cpc EXCEPT ![c] = "ensured"]
            /\ UNCHANGED cerr
       ELSE Throw(c, "notInitialized")
    /\ UNCHANGED <<sessVars, bconn, cpage>>

\* line 98: the awaited attempt rejected; its error propagates.
ResumeEnsureErr(c) ==
    /\ cpc[c] = "resumeErr" /\ ckind[c] # "dispose"
    /\ Throw(c, ierr[cawait[c]])
    /\ UNCHANGED <<sessVars, bconn, cpage>>

\* lines 391-401: dispose after the awaited attempt settled either way.
ResumeDispose(c) ==
    /\ cpc[c] \in {"resumeOk", "resumeErr"} /\ ckind[c] = "dispose"
    /\ Commit(DisposeTeardown(Session))
    /\ cpc' = [cpc EXCEPT ![c] = "done"]
    /\ UNCHANGED <<cerr, cpage>>

\* lines 207-210: createMessage after _ensureInitialized returned.
CreateMessageEnter(c) ==
    /\ cpc[c] = "ensured" /\ ckind[c] = "create"
    /\ IF page = NULL \/ IsClosed(page)
       THEN Throw(c, "pageUnavailable") /\ UNCHANGED cpage
       ELSE /\ cpc' = [cpc EXCEPT ![c] = "focus"]
            /\ cpage' = [cpage EXCEPT ![c] = page]
            /\ UNCHANGED cerr
    /\ UNCHANGED <<sessVars, bconn>>

\* line 83 or the end of _ensureInitialized: the direct caller has its answer.
EnsureReturn(c) ==
    /\ cpc[c] = "ensured" /\ ckind[c] = "ensure"
    /\ cpc' = [cpc EXCEPT ![c] = "done"]
    /\ UNCHANGED <<sessVars, bconn, cerr, cpage>>

Microtask ==
    /\ MicrotaskPending
    /\ LET c == NextMicrotask
       IN  \/ ResumeEnsureOk(c)
           \/ ResumeEnsureErr(c)
           \/ ResumeDispose(c)
           \/ CreateMessageEnter(c)
           \/ EnsureReturn(c)
    /\ UNCHANGED <<initVars, bhand, bpend, bstuck, pageVars, nCalls, ckind, cawait, cn0,
                   csel, cchunks, domVars, nFaults, histVars, funVars>>

\* ---- _initializeInternal (lines 104-184), one action per awaited operation ----

\* The attempt goes on to its next awaited operation, issued on browser
\* handle b or page handle p.
Continue(i, s, to, b, p) ==
    /\ Commit(s)
    /\ ipc' = [ipc EXCEPT ![i] = to]
    /\ ibrowser' = [ibrowser EXCEPT ![i] = b]
    /\ ipage' = [ipage EXCEPT ![i] = p]
    /\ UNCHANGED <<ierr, cpc>>

\* The attempt's promise settles: the callers awaiting it are resumed.
Settle(i, s, how, kind) ==
    /\ Commit(s)
    /\ ipc' = [ipc EXCEPT ![i] = how]
    /\ ierr' = [ierr EXCEPT ![i] = kind]
    /\ ibrowser' = [ibrowser EXCEPT ![i] = NULL]
    /\ ipage' = [ipage EXCEPT ![i] = NULL]
    /\ cpc' = WakeWaiters(i, IF how = "resolved" THEN "resumeOk" ELSE "resumeErr")

\* The attempt has left its try block: what it issued is no longer asked for.
Left(i) == [isteps EXCEPT ![i] = {}]

\* An operation inside the try block (lines 120-173) threw: the catch block
\* of _initializeInternal, then the .catch handler of _ensureInitialized.
InitThrows(i, s) ==
    /\ Settle(i, EnsureInitializedCatch(InitializeInternalCatch(s)), "rejected", "init")
    /\ isteps' = Left(i)

\* Discovery whose result is looked at only after connect was issued.
DiscoverChecksLate(i, found) ==
    /\ ipc[i] = "discover"
    /\ IF found
       THEN Continue(i, Session, "connect", NULL, NULL)
       ELSE Settle(i, EnsureInitializedCatch(Session), "rejected", "discovery")
    /\ isteps' = [isteps EXCEPT ![i] = @ \cup {"connect"}]
    /\ UNCHANGED <<bhand, bpend, pageVars>>

\* lines 110-118: discoverChromeHostUrl returned; without an endpoint the
\* attempt throws before its try block.
Discover(i, found) ==
    /\ ipc[i] = "discover"
    /\ IF found
       THEN /\ Continue(i, Session, "connect", NULL, NULL)
            /\ isteps' = [isteps EXCEPT ![i] = @ \cup {"connect"}]
       ELSE /\ Settle(i, EnsureInitializedCatch(Session), "rejected", "discovery")
            /\ UNCHANGED isteps
    /\ UNCHANGED <<bhand, bpend, pageVars>>

\* lines 125-126: puppeteer.connect returned; browser.version() is issued.
Connect(i, ok) ==
    /\ ipc[i] = "connect"
    /\ IF ok
       THEN /\ Continue(i, [Session EXCEPT !.browser = i, !.conn[i] = TRUE], "version", i, NULL)
            /\ UNCHANGED isteps
       ELSE InitThrows(i, Session)
    /\ UNCHANGED <<bhand, bpend, pageVars>>

\* lines 126-134: version() returned; the 'disconnected' listener is registered
\* on the handle the field holds now, and pages() is issued on it.
Version(i) ==
    /\ ipc[i] = "version"
    /\ IF bconn[ibrowser[i]] /\ browser # NULL
       THEN /\ Continue(i, Session, "pages", browser, NULL)
            /\ bhand' = [bhand EXCEPT ![browser] = TRUE]
            /\ UNCHANGED isteps
       ELSE /\ InitThrows(i, Session)
            /\ UNCHANGED bhand
    /\ UNCHANGED <<bpend, pageVars>>

\* lines 134-169: pages() returned.  A page at the target URL is taken as it
\* is (no navigation, listeners registered, readiness wait issued); otherwise
\* newPage() is issued on the handle the field holds now.
Pages(i, found) ==
    /\ ipc[i] = "pages"
    /\ IF bconn[ibrowser[i]] /\ found
       THEN /\ Continue(i, [Session EXCEPT !.page = i], "waitSel", NULL, i)
            /\ pst' = [pst EXCEPT ![i] = "live"]
            /\ pbrowser' = [pbrowser EXCEPT ![i] = ibrowser[i]]
            /\ phand' = [phand EXCEPT ![i] = TRUE]
            /\ UNCHANGED isteps
       ELSE IF bconn[ibrowser[i]] /\ browser # NULL
       THEN /\ Continue(i, Session, "newPage", browser, NULL)
            /\ UNCHANGED <<pst, pbrowser, phand, isteps>>
       ELSE /\ InitThrows(i, Session)
            /\ UNCHANGED <<pst, pbrowser, phand>>
    /\ UNCHANGED <<bhand, bpend, ppend>>

\* lines 137-144: newPage() returned; the blank page is navigated.
NewPage(i) ==
    /\ ipc[i] = "newPage"
    /\ IF bconn[ibrowser[i]]
       THEN /\ Continue(i, [Session EXCEPT !.page = i], "goto", NULL, i)
            /\ pst' = [pst EXCEPT ![i] = "live"]
            /\ pbrowser' = [pbrowser EXCEPT ![i] = ibrowser[i]]
            /\ isteps' = [isteps EXCEPT ![i] = @ \cup {"goto"}]
       ELSE /\ InitThrows(i, Session)
            /\ UNCHANGED <<pst, pbrowser>>
    /\ UNCHANGED <<bhand, bpend, phand, ppend>>

\* lines 144-169: goto returned; the listeners are registered on the page the
\* field holds now and the readiness wait is issued on it.
Goto(i, ok) ==
    /\ ipc[i] = "goto"
    /\ IF ok /\ PageUsable(ipage[i]) /\ page # NULL
       THEN /\ Continue(i, Session, "waitSel", NULL, page)
            /\ phand' = [phand EXCEPT ![page] = TRUE]
            /\ UNCHANGED isteps
       ELSE /\ InitThrows(i, Session)
            /\ UNCHANGED phand
    /\ UNCHANGED <<bhand, bpend, pst, pbrowser, ppend>>

\* lines 169-173: the readiness wait returned.
WaitSel(i, ok) ==
    /\ ipc[i] = "waitSel"
    /\ IF ok /\ PageUsable(ipage[i])
       THEN /\ Settle(i, [Session EXCEPT !.init = TRUE], "resolved", "none")
            /\ isteps' = Left(i)
       ELSE InitThrows(i, Session)
    /\ UNCHANGED <<bhand, bpend, pageVars>>

InitStep ==
    /\ ~MicrotaskPending
    /\ \E i \in Inits :
          \/ \E found \in BOOLEAN : Discover(i, found)
          \/ \E ok \in BOOLEAN : Connect(i, ok)
          \/ Version(i)
          \/ \E found \in BOOLEAN : Pages(i, found)
          \/ NewPage(i)
          \/ \E ok \in BOOLEAN : Goto(i, ok)
          \/ \E ok \in BOOLEAN : WaitSel(i, ok)
    /\ UNCHANGED <<bstuck, nCalls, ckind, cawait, cpage, cn0, csel, cchunks, cerr,
                   domVars, nFaults, cpeers, cafter, cmark, sinceDisconnected, funVars>>

\* ---- createMessage (lines 231-323), one action per awaited operation ----

\* The call is over: what it held in its locals is gone.
Drop(f, c) == [f EXCEPT ![c] = 0]

\* lines 311-323: an operation inside the try block threw.
InteractionThrows(c, err) ==
    /\ Commit(CreateMessageCatch(Session))
    /\ Throw(c, err)
    /\ cn0' = Drop(cn0, c) /\ csel' = Drop(csel, c) /\ cmark' = Drop(cmark, c)
    /\ UNCHANGED cchunks

\* The call goes on to its next awaited operation.
Advance(c, to) ==
    /\ cpc' = [cpc EXCEPT ![c] = to]
    /\ UNCHANGED <<sessVars, bconn, cerr>>

\* An awaited operation on the captured page that returns nothing the call
\* keeps: it completes (ok, on a usable page) or throws.
PageOp(c, from, to, ok) ==
    /\ cpc[c] = from
    /\ IF ok /\ PageUsable(cpage[c])
       THEN Advance(c, to) /\ UNCHANGED <<cn0, csel, cmark, cchunks>>
       ELSE InteractionThrows(c, "interaction")

\* lines 232-233: wait for the prompt editor, focus it.
Focus(c, ok) == PageOp(c, "focus", "count", ok)

\* line 235: currentInitialResponseCount.
Count(c) ==
    /\ cpc[c] = "count"
    /\ IF PageUsable(cpage[c])
       THEN /\ Advance(c, "inject")
            /\ cn0' = [cn0 EXCEPT ![c] = Len(dom[cpage[c]])]
            /\ cmark' = [cmark EXCEPT ![c] = nCont]
            /\ UNCHANGED <<csel, cchunks>>
       ELSE InteractionThrows(c, "interaction")

\* lines 237-257: clear the editor and insert the prompt.
Inject(c, ok) == PageOp(c, "inject", "send", ok)

\* lines 259-260: wait for the enabled send button, click it.
Send(c, ok) == PageOp(c, "send", "stopOn", ok)

\* line 262: wait for the stop button to appear.
StopVisible(c, ok) == PageOp(c, "stopOn", "stopOff", ok)

\* line 263: wait for the stop button to disappear.
StopHidden(c, ok) == PageOp(c, "stopOff", "ready", ok)

\* lines 264-270: wait for the microphone button; a failure is only logged.
ReadyForInput(c) ==
    /\ cpc[c] = "ready"
    /\ Advance(c, "poll")
    /\ UNCHANGED <<cn0, csel, cmark, cchunks>>

\* lines 272-296: the poll for more than currentInitialResponseCount elements.
Poll(c, timedOut) ==
    /\ cpc[c] = "poll"
    /\ IF ~PageUsable(cpage[c])
       THEN InteractionThrows(c, "interaction")
       ELSE IF Len(dom[cpage[c]]) > cn0[c]
       THEN Advance(c, "roots") /\ UNCHANGED <<cn0, csel, cmark, cchunks>>
       ELSE timedOut /\ InteractionThrows(c, "timeout")

\* The last element instead of the one at currentInitialResponseCount.
LastModelResponseElement(roots, count) == roots[Len(roots)]

\* The element the call extracts from: the one at currentInitialResponseCount.
NewModelResponseElement(roots, count) == roots[count + 1]

\* lines 298-301: re-enumerate the elements, take the new one.
Roots(c) ==
    /\ cpc[c] = "roots"
    /\ IF ~PageUsable(cpage[c])
       THEN InteractionThrows(c, "interaction")
       ELSE IF cn0[c] >= Len(dom[cpage[c]])
       THEN InteractionThrows(c, "notFound")
       ELSE /\ Advance(c, "panel")
            /\ csel' = [csel EXCEPT ![c] = NewModelResponseElement(dom[cpage[c]], cn0[c])]
            /\ UNCHANGED <<cn0, cmark, cchunks>>

\* lines 303-304: the markdown panel inside the new element, or null.
Panel(c, found) ==
    /\ cpc[c] = "panel"
    /\ IF ~PageUsable(cpage[c])
       THEN InteractionThrows(c, "interaction")
       ELSE IF ~found
       THEN InteractionThrows(c, "noPanel")
       ELSE Advance(c, "text") /\ UNCHANGED <<cn0, csel, cmark, cchunks>>

TextChunk(raw) == [type |-> "text", text |-> Trim(decodeXmlEntities(raw))]
\* A usage chunk with an estimate instead of the zeros of line 310.
UsageChunkEstimated == [type |-> "usage", inputTokens |-> 1, outputTokens |-> 1]
UsageChunk == [type |-> "usage", inputTokens |-> 0, outputTokens |-> 0]

\* lines 306-309: read the panel's text, decode, trim, yield the text chunk.
Text(c) ==
    /\ cpc[c] = "text"
    /\ IF PageUsable(cpage[c])
       THEN /\ Advance(c, "yielded1")
            /\ cchunks' = [cchunks EXCEPT ![c] = Append(@, TextChunk(InnerText(csel[c])))]
            /\ UNCHANGED <<cn0, csel, cmark>>
       ELSE InteractionThrows(c, "interaction")

\* line 310: the consumer asked for the next chunk.
Usage(c) ==
    /\ cpc[c] = "yielded1"
    /\ Advance(c, "yielded2")
    /\ cchunks' = [cchunks EXCEPT ![c] = Append(@, UsageChunk)]
    /\ UNCHANGED <<cn0, csel, cmark>>

\* The consumer asked again: the generator returns.
Return(c) ==
    /\ cpc[c] = "yielded2"
    /\ Advance(c, "done")
    /\ cn0' = Drop(cn0, c) /\ csel' = Drop(csel, c) /\ cmark' = Drop(cmark, c)
    /\ UNCHANGED cchunks

Interact ==
    /\ ~MicrotaskPending
    /\ \E c \in Calls :
          \/ \E ok \in BOOLEAN : Focus(c, ok)
          \/ Count(c)
          \/ \E ok \in BOOLEAN : Inject(c, ok)
          \/ \E ok \in BOOLEAN : Send(c, ok)
          \/ \E ok \in BOOLEAN : StopVisible(c, ok)
          \/ \E ok \in BOOLEAN : StopHidden(c, ok)
          \/ ReadyForInput(c)
          \/ \E timedOut \in BOOLEAN : Poll(c, timedOut)
          \/ Roots(c)
          \/ \E found \in BOOLEAN : Panel(c, found)
          \/ Text(c)
          \/ Usage(c)
          \/ Return(c)
    /\ UNCHANGED <<initVars, bhand, bpend, bstuck, pageVars, nCalls, ckind, cawait, cpage,
                   domVars, nFaults, cpeers, cafter, isteps, sinceDisconnected, funVars>>

\* ---- the target application ----

InteractionPcs ==
    {"focus", "count", "inject", "send", "stopOn", "stopOff", "ready", "poll", "roots",
     "panel", "text", "yielded1", "yielded2"}

\* Some createMessage call is working on page p.
InUse(p) == \E c \in Calls : cpc[c] \in InteractionPcs /\ cpage[c] = p

\* The application renders one more model-response element on page p.
DomAppend(p) ==
    /\ ~MicrotaskPending
    /\ InUse(p) /\ PageUsable(p)
    /\ nCont < MaxContainers
    /\ nCont' = nCont + 1
    /\ dom' = [dom EXCEPT ![p] = Append(@, nCont + 1)]
    /\ UNCHANGED <<sessVars, initVars, browserVars, pageVars, callVars, nFaults, histVars,
                   funVars>>

\* The conversation on page p is cleared: its elements are gone.
DomReset(p) ==
    /\ InUse(p) /\ PageUsable(p)
    /\ dom[p] # <<>>
    /\ dom' = [dom EXCEPT ![p] = <<>>]
    /\ UNCHANGED <<sessVars, bconn, bpend, bstuck, pst, ppend, nCont>>

\* ---- the browser's side: handles die, events are delivered ----

\* The connection of handle b drops; 'disconnected' is emitted to the
\* listeners registered by then.
BrowserDrop(b) ==
    /\ bconn[b]
    /\ bconn' = [bconn EXCEPT ![b] = FALSE]
    /\ bpend' = [bpend EXCEPT ![b] = bhand[b]]
    /\ UNCHANGED <<sessVars, bstuck, pst, ppend>>

\* The transport of handle b breaks in a way that makes a later disconnect()
\* on it reject.
DetachBreaks(b) ==
    /\ bconn[b] /\ ~bstuck[b]
    /\ bstuck' = [bstuck EXCEPT ![b] = TRUE]
    /\ UNCHANGED <<sessVars, bconn, bpend, pst, ppend>>

\* The tab behind page p is closed ('close') or its renderer crashes ('error').
PageDies(p, how) ==
    /\ pst[p] = "live" /\ bconn[pbrowser[p]]
    /\ pst' = [pst EXCEPT ![p] = how]
    /\ ppend' = [ppend EXCEPT ![p] = phand[p]]
    /\ UNCHANGED <<sessVars, bconn, bpend, bstuck>>

Fault ==
    /\ ~MicrotaskPending
    /\ nFaults < MaxFaults
    /\ nFaults' = nFaults + 1
    /\ \/ \E b \in Handles : BrowserDrop(b) /\ UNCHANGED domVars
       \/ \E b \in Handles : DetachBreaks(b) /\ UNCHANGED domVars
       \/ \E p \in Handles : PageDies(p, "closed") /\ UNCHANGED domVars
       \/ \E p \in Handles : PageDies(p, "crashed") /\ UNCHANGED domVars
       \/ \E p \in Handles : DomReset(p)
    /\ UNCHANGED <<initVars, bhand, pbrowser, phand, callVars, histVars, funVars>>

\* lines 127-132 run.
DisconnectedEvent(b) ==
    /\ bpend[b]
    /\ bpend' = [bpend EXCEPT ![b] = FALSE]
    /\ Commit(DisconnectedListener(Session))
    /\ sinceDisconnected' = IF isInitialized /\ browser # NULL /\ page # NULL
                            THEN "fired"
                            ELSE sinceDisconnected
    /\ UNCHANGED ppend

\* lines 149-153 or 154-161 run.
PageEvent(p) ==
    /\ ppend[p]
    /\ ppend' = [ppend EXCEPT ![p] = FALSE]
    /\ Commit(PageListener(Session))
    /\ UNCHANGED <<bpend, sinceDisconnected>>

Event ==
    /\ ~MicrotaskPending
    /\ \/ \E b \in Handles : DisconnectedEvent(b)
       \/ \E p \in Handles : PageEvent(p)
    /\ UNCHANGED <<initVars, bhand, bstuck, pst, pbrowser, phand, callVars, domVars,
                   nFaults, cpeers, cafter, cmark, isteps, funVars>>

\* The rest of the system, as it is meant to use the handler: one request
\* at a time.
NoCallActive == nCalls < MaxRequests /\ \A c \in Calls : ~CallActive(c)

Next ==
    \/ NoCallActive /\ StartCreateMessage
    \/ NoCallActive /\ StartDispose
    \/ Microtask
    \/ InitStep
    \/ Interact
    \/ \E p \in Handles : DomAppend(p)
    \/ Fault
    \/ Event

Spec == Init /\ [][Next]_vars

\* Callers of _ensureInitialized and dispose that overlap: a call is issued
\* while another has not returned.  The browser behaves: nothing dies under
\* the handler.
NextConcurrent ==
    \/ StartEnsureInitialized
    \/ StartDispose
    \/ Microtask
    \/ InitStep

SpecConcurrent == Init /\ [][NextConcurrent]_vars

\* Overlapping callers of _ensureInitialized and dispose against a browser
\* whose handles die and whose events arrive late.
NextUnreliable ==
    \/ StartEnsureInitialized
    \/ StartDispose
    \/ Microtask
    \/ InitStep
    \/ Fault
    \/ Event

SpecUnreliable == Init /\ [][NextUnreliable]_vars

\* ---- the functions that do not touch the session ----

MaxPieces == 2       \* pieces a text handed to decodeXmlEntities is made of
MaxTurns == 2        \* turns of a conversation handed to createMessage
MaxBlocks == 2       \* content blocks handed to countTokens

RECURSIVE Join(_, _)
\* Array.prototype.join.
Join(parts, sep) ==
    IF parts = <<>> THEN <<>>
    ELSE IF Len(parts) = 1 THEN parts[1]
    ELSE parts[1] \o sep \o Join(Tail(parts), sep)

\* The sequences of at most n elements of S.
SeqsUpTo(S, n) == UNION {[1..k -> S] : k \in 0..n}

\* What the texts of the model are made of: the characters that have an
\* entity, a letter, a semicolon, and the text of each entity.
Pieces ==
    {<<"<">>, <<">">>, <<"&">>, <<"\"">>, <<"'">>, <<"a">>, <<";">>,
     <<"&", "l", "t", ";">>, <<"&", "g", "t", ";">>, <<"&", "a", "m", "p", ";">>,
     <<"&", "q", "u", "o", "t", ";">>, <<"&", "a", "p", "o", "s", ";">>}

Texts == {Join(ps, <<>>) : ps \in SeqsUpTo(Pieces, MaxPieces)}

\* Standard escaping of one character and of a text.
EscapeChar(ch) ==
    CASE ch = "&" -> <<"&", "a", "m", "p", ";">>
      [] ch = "<" -> <<"&", "l", "t", ";">>
      [] ch = ">" -> <<"&", "g", "t", ";">>
      [] ch = "\"" -> <<"&", "q", "u", "o", "t", ";">>
      [] ch = "'" -> <<"&", "a", "p", "o", "s", ";">>
      [] OTHER -> <<ch>>

EscapeXml(t) == Join([k \in 1..Len(t) |-> EscapeChar(t[k])], <<>>)

\* The texts the application renders for the texts of the model: escaped.
DecodeArguments ==
    {[fn |-> "decodeXmlEntities", src |-> t, arg |-> EscapeXml(t)] : t \in Texts}

\* decodeXmlEntities (lines 29-37) is called and returns.
DecodeCall ==
    /\ fin.fn = "decodeXmlEntities" /\ ~fout.done
    /\ fout' = [done |-> TRUE, value |-> decodeXmlEntities(fin.arg)]
    /\ UNCHANGED <<fin, sessVars, initVars, browserVars, pageVars, callVars, domVars,
                   nFaults, histVars>>

User == <<"u", "s", "e", "r">>
Assistant == <<"a", "s", "s", "i", "s", "t", "a", "n", "t">>
TextType == <<"t", "e", "x", "t">>
ImageType == <<"i", "m", "a", "g", "e">>
ToolUseType == <<"t", "o", "o", "l", "_", "u", "s", "e">>

TextBlock(t) == [type |-> TextType, text |-> t]
OtherBlock(ty) == [type |-> ty]

\* A turn's content: a string, or an array of blocks.
StringContent(t) == [isString |-> TRUE, text |-> t]
BlockContent(bs) == [isString |-> FALSE, blocks |-> bs]

\* line 212: what follows a system prompt.
Separator == <<"\n", "\n", "-", "-", "-", "\n", "\n">>
\* line 225: what the turns are joined by.
BlankLine == <<"\n", "\n">>

\* Blocks other than text left out.
RenderBlockDropsOthers(block) ==
    IF block.type = TextType THEN block.text ELSE <<>>

\* line 220: a text block is its text, any other block a placeholder.
RenderBlock(block) ==
    IF block.type = TextType
    THEN block.text
    ELSE <<"[", "U", "n", "s", "u", "p", "p", "o", "r", "t", "e", "d", " ">>
            \o block.type \o <<"]">>

\* lines 214-224: one turn as "<role>: <content>".
RenderTurn(m) ==
    LET contentText ==
            IF m.content.isString
            THEN m.content.text
            ELSE Join([k \in 1..Len(m.content.blocks) |-> RenderBlock(m.content.blocks[k])],
                      <<>>)
    IN  m.role \o <<":", " ">> \o contentText

\* lines 212-226: fullPrompt.
FullPrompt(systemPrompt, messages) ==
    LET prefix == IF systemPrompt # <<>> THEN systemPrompt \o Separator ELSE <<>>
        turns == [k \in 1..Len(messages) |-> RenderTurn(messages[k])]
    IN  Trim(prefix \o Join(turns, BlankLine))

SystemPrompts == {<<>>, <<"S">>, <<" ", "S">>, <<"S", "\n">>}

Contents ==
    {StringContent(<<"h", "i">>), StringContent(<<"y", "o">>), StringContent(<<"o", "k", " ">>),
     BlockContent(<<TextBlock(<<"a">>), OtherBlock(ImageType)>>),
     BlockContent(<<OtherBlock(ToolUseType), TextBlock(<<"b">>)>>),
     BlockContent(<<>>)}

Turns == [role : {User, Assistant}, content : Contents]

PromptArguments ==
    {[fn |-> "fullPrompt", systemPrompt |-> sp, messages |-> ms] :
        sp \in SystemPrompts, ms \in SeqsUpTo(Turns, MaxTurns)}

\* lines 212-226 run: createMessage has encoded its prompt.
FullPromptCall ==
    /\ fin.fn = "fullPrompt" /\ ~fout.done
    /\ fout' = [done |-> TRUE, value |-> FullPrompt(fin.systemPrompt, fin.messages)]
    /\ UNCHANGED <<fin, sessVars, initVars, browserVars, pageVars, callVars, domVars,
                   nFaults, histVars>>

\* Math.ceil(n / 4) for a length n.
CeilQuarter(n) == (n + 3) \div 4

\* Math.floor instead of Math.ceil.
countTokensRoundsDown(content) ==
    LET textContent ==
            IF content.isArray
            THEN Join([k \in 1..Len(content.blocks) |->
                          IF content.blocks[k].type = TextType
                          THEN content.blocks[k].text
                          ELSE <<>>], <<>>)
            ELSE <<>>
    IN  Len(textContent) \div 4

\* lines 363-385: countTokens.
countTokens(content) ==
    LET textContent ==
            IF content.isArray
            THEN Join([k \in 1..Len(content.blocks) |->
                          IF content.blocks[k].type = TextType
                          THEN content.blocks[k].text
                          ELSE <<>>], <<>>)
            ELSE <<>>
    IN  CeilQuarter(Len(textContent))

\* A text of n characters.
TextOfLength(n) == [k \in 1..n |-> "x"]

TokenBlocks ==
    {TextBlock(TextOfLength(n)) : n \in {0, 1, 4, 5, 37}}
        \cup {OtherBlock(ImageType), OtherBlock(ToolUseType)}

\* countTokens is handed an array of blocks, or nothing.
TokenArguments ==
    {[fn |-> "countTokens", content |-> [isArray |-> TRUE, blocks |-> bs]] :
        bs \in SeqsUpTo(TokenBlocks, MaxBlocks)}
        \cup {[fn |-> "countTokens", content |-> [isArray |-> FALSE]]}

\* countTokens (lines 363-385) is called and returns.
CountTokensCall ==
    /\ fin.fn = "countTokens" /\ ~fout.done
    /\ fout' = [done |-> TRUE, value |-> countTokens(fin.content)]
    /\ UNCHANGED <<fin, sessVars, initVars, browserVars, pageVars, callVars, domVars,
                   nFaults, histVars>>

InitFunctions ==
    /\ InitHandler
    /\ fin \in DecodeArguments \cup PromptArguments \cup TokenArguments
    /\ fout = NoResult

NextFunctions ==
    \/ DecodeCall
    \/ FullPromptCall
    \/ CountTokensCall

SpecFunctions == InitFunctions /\ [][NextFunctions]_vars

\* ---- what a caller has seen of _ensureInitialized ----

EnsureErrors == {"init", "discovery", "notInitialized"}

\* The _ensureInitialized of call c returned normally.
EnsureReturned(c) ==
    /\ ckind[c] \in {"create", "ensure"}
    /\ \/ cpc[c] \in {"ensured", "done"} \cup InteractionPcs
       \/ cpc[c] = "failed" /\ cerr[c] \notin EnsureErrors

\* The _ensureInitialized of call c threw.
EnsureThrew(c) ==
    /\ ckind[c] \in {"create", "ensure"}
    /\ cpc[c] = "failed" /\ cerr[c] \in EnsureErrors

\* This step issues a call of _ensureInitialized (directly or by createMessage).
IssuesEnsure == nCalls' = nCalls + 1 /\ ckind'[nCalls'] # "dispose"

\* The call this step issues starts _initializeInternal anew and awaits it.
StartsFresh ==
    /\ ipc'[nCalls'] = "discover"
    /\ cawait'[nCalls'] = nCalls'
    /\ initializationPromise' = nCalls'

\* ---- the claims ----

\* C1: at most one initialization sequence is in progress at any time, however
\* many callers invoke _ensureInitialized while the session is not ready.
C1_OneSequenceInProgress == Cardinality({i \in Inits : InFlight(i)}) <= 1

\* C2: callers whose _ensureInitialized calls were pending together observe
\* the same outcome: never one returning normally and another throwing.
C2_SameOutcome ==
    \A c \in Calls : \A d \in cpeers[c] :
        /\ ~(EnsureReturned(c) /\ EnsureThrew(d))
        /\ ~(EnsureThrew(c) /\ EnsureReturned(d))

\* C3: whenever _ensureInitialized returns normally the ready flag is true,
\* the page is non-null and not closed, the browser non-null and connected.
C3_ReturnsOnlyWhenLive ==
    \A c \in Calls : cpc[c] = "ensured" =>
        /\ isInitialized
        /\ page # NULL /\ ~IsClosed(page)
        /\ browser # NULL /\ bconn[browser]

C4_Step ==
    /\ \A c \in Calls :
          cpc'[c] = "resumeErr" /\ ckind'[c] # "dispose" =>
              /\ initializationPromise' = NULL
              /\ ~isInitialized'
              /\ page' = NULL /\ browser' = NULL
    /\ \A i \in Inits :
          (InFlight(i) /\ ipc'[i] = "rejected" /\ browser # NULL /\ ~bstuck[browser])
          => ~bconn'[browser]
    /\ (nCalls > 0 /\ IssuesEnsure /\ cpc[nCalls] = "failed"
            /\ cerr[nCalls] \in {"init", "discovery"})
       => StartsFresh

\* C4: when an initialization attempt fails, then as the error reaches the
\* caller the memoized attempt is cleared, the ready flag is false and both
\* handles are null, the browser that was held having been detached (unless
\* its disconnect() rejects); the very next _ensureInitialized call starts a
\* fresh attempt at discovery.
C4_FailedAttemptIsCleared == [][C4_Step]_vars

\* The error of an attempt that had connected has reached its caller: the
\* browser is detached, the handles and the memoized attempt are cleared.
C4_Witness ==
    \E c \in Calls :
        /\ ckind[c] = "create" /\ cpc[c] = "failed" /\ cerr[c] = "init"
        /\ cawait[c] = c /\ bhand[c] /\ ~bconn[c]
        /\ initializationPromise = NULL /\ browser = NULL /\ page = NULL

C5_Step ==
    /\ sinceDisconnected = "fired" /\ IssuesEnsure => StartsFresh
    /\ LET c == nCalls'
       IN  (sinceDisconnected' = "next"
                /\ cpc'[c] \notin {"idle", "done", "failed", "gone"}) =>
              /\ cawait'[c] = c
              /\ ibrowser'[c] \in {NULL, c} /\ ipage'[c] \in {NULL, c}
              /\ cpage'[c] \in {NULL, c}
              /\ cpage'[c] # NULL => pbrowser'[c] = c /\ bhand'[c]

\* C5: after the 'disconnected' listener ran on a ready session, the next
\* call runs a complete fresh initialization sequence, discovery and connect
\* included, and operates only on the handles that sequence obtained.
C5_FreshAfterDisconnected == [][C5_Step]_vars

\* The first call issued after the listener ran is working on the page its own
\* initialization sequence obtained.
C5_Witness ==
    /\ sinceDisconnected = "next"
    /\ nCalls > 1
    /\ cpc[nCalls] \in InteractionPcs
    /\ cpage[nCalls] = nCalls /\ pbrowser[nCalls] = nCalls

C6_Step ==
    \A c \in Calls :
        (/\ ckind[c] = "create"
         /\ cpc[c] \in {"ensured"} \cup InteractionPcs
         /\ cpc'[c] = "failed"
         /\ HandlesDead(Session))
        => ~isInitialized' /\ initializationPromise' = NULL

\* C6: whenever a createMessage call fails while the page reports closed or
\* the browser reports disconnected, the ready flag is cleared and so is the
\* memoized attempt, at every point the call can fail at, the check of the
\* page made right after _ensureInitialized included.
C6_FailureOnDeadHandlesResets == [][C6_Step]_vars

\* C7: a createMessage call that completes has yielded exactly one text chunk
\* and then exactly one usage chunk with zero input and output tokens; a call
\* that failed has yielded nothing.
C7_Chunks ==
    \A c \in Calls : ckind[c] = "create" =>
        /\ cpc[c] = "done" =>
              /\ Len(cchunks[c]) = 2
              /\ cchunks[c][1].type = "text"
              /\ cchunks[c][2] = [type |-> "usage", inputTokens |-> 0, outputTokens |-> 0]
        /\ cpc[c] = "failed" => cchunks[c] = <<>>

\* A createMessage call has completed, its two chunks yielded.
C7_Witness ==
    \E c \in Calls :
        /\ ckind[c] = "create" /\ cpc[c] = "done"
        /\ Len(cchunks[c]) = 2 /\ cchunks[c][1].text # <<>>

C8_Step ==
    /\ \A i \in Inits :
          ipc[i] = "discover" /\ ipc'[i] = "rejected" =>
              /\ ierr'[i] = "discovery"
              /\ isteps'[i] = {}
              /\ \A c \in Calls : cawait[c] = i => cpage'[c] = NULL /\ cchunks'[c] = <<>>
    /\ \A c \in Calls :
          ckind'[c] = "create" /\ cpc'[c] = "failed" /\ cerr'[c] = "discovery" =>
              /\ isteps'[cawait'[c]] = {}
              /\ cpage'[c] = NULL
              /\ cchunks'[c] = <<>>

\* C8: when discovery returns no endpoint, the sequence has issued no connect
\* and no navigation, and createMessage throws the discovery error without an
\* input step and without a chunk yielded.
C8_DiscoveryFailsFast == [][C8_Step]_vars

\* A createMessage call has thrown the discovery error.
C8_Witness ==
    \E c \in Calls :
        /\ ckind[c] = "create" /\ cpc[c] = "failed" /\ cerr[c] = "discovery"
        /\ cawait[c] = c /\ isteps[c] = {}

C9_Step ==
    /\ \A c \in Calls :
          (cpc[c] = "poll" /\ cpc'[c] = "failed" /\ cerr'[c] = "timeout"
                /\ FastPath(Session))
          => UNCHANGED <<sessVars, bconn, ipc>>
    /\ (nCalls > 0 /\ cpc[nCalls] = "failed" /\ cerr[nCalls] = "timeout"
            /\ FastPath(Session) /\ IssuesEnsure)
       => /\ cpc'[nCalls'] = "ensured" /\ cawait'[nCalls'] = NULL
          /\ UNCHANGED <<sessVars, bconn, ipc>>
    /\ \A c \in Calls :
          (cafter[c] /\ cpc[c] = "poll" /\ cpc'[c] # "poll"
                /\ PageUsable(cpage[c]) /\ Len(dom[cpage[c]]) > cn0[c])
          => cpc'[c] = "roots"

\* C9: a createMessage call that fails on the poll's deadline while page and
\* browser report live leaves the session ready, with the same handles and
\* memoized attempt; the very next call takes the fast path without
\* initializing, and its poll succeeds once an element beyond its own count
\* is there.
C9_TimeoutLeavesSessionReady == [][C9_Step]_vars

\* The call issued right after one that timed out took the fast path and
\* completed with its two chunks.
C9_Witness ==
    \E c \in Calls :
        /\ cafter[c] /\ ckind[c] = "create" /\ cawait[c] = NULL
        /\ cpc[c] = "done" /\ Len(cchunks[c]) = 2

\* The elements of page p are those counted at line 235 by call c followed by
\* the ones rendered since, none removed.
OnlyAppendedSince(c, p) ==
    \A j \in 1..Len(dom[p]) :
        IF j <= cn0[c] THEN dom[p][j] <= cmark[c] ELSE dom[p][j] = cmark[c] + (j - cn0[c])

C10_Step ==
    \A c \in Calls :
        /\ cpc[c] = "roots" /\ cpc'[c] # "roots" =>
              LET roots == dom[cpage[c]]
              IN  IF PageUsable(cpage[c]) /\ Len(roots) > cn0[c]
                  THEN /\ cpc'[c] = "panel"
                       /\ csel'[c] = roots[cn0[c] + 1]
                       /\ OnlyAppendedSince(c, cpage[c]) =>
                             /\ csel'[c] = cmark[c] + 1
                             /\ \A j \in 1..cn0[c] : csel'[c] # roots[j]
                             /\ Len(roots) > cn0[c] + 1 => csel'[c] # roots[Len(roots)]
                  ELSE cpc'[c] = "failed"
        /\ cpc[c] = "text" /\ cpc'[c] = "yielded1" =>
              cchunks'[c] = <<[type |-> "text",
                               text |-> Trim(decodeXmlEntities(InnerText(csel[c])))]>>

\* C10: with n0 elements counted before submission and k >= 1 appended since,
\* the text is extracted from the element at index n0 of the re-enumerated
\* list, the first one appended after the count: never one that was there
\* before, never the last one when k > 1; without an element at index n0 the
\* call fails.
C10_ExtractsAtSnapshotIndex == [][C10_Step]_vars

\* Two elements were appended after the count; the call took the first.
C10_Witness ==
    \E c \in Calls :
        /\ cpc[c] = "panel"
        /\ Len(dom[cpage[c]]) = cn0[c] + 2
        /\ csel[c] = cmark[c] + 1
        /\ csel[c] # dom[cpage[c]][Len(dom[cpage[c]])]

C11_Step ==
    \A c \in Calls :
        (cpc[c] \in {"stopOn", "stopOff"} /\ PageUsable(cpage[c]) /\ cpc'[c] # cpc[c])
        => cpc'[c] # "failed"

\* C11: a wait for the processing indicator (to appear, line 262, or to
\* disappear, line 263) that ends while page and browser are live never makes
\* createMessage fail: the call goes on towards the poll.
C11_IndicatorTimeoutNonFatal == [][C11_Step]_vars

\* Call c is a dispose that has returned, and no call was issued after it.
DisposeReturnedLast(c) == ckind[c] = "dispose" /\ cpc[c] = "done" /\ nCalls = c

\* C12: dispose tears down only once no initialization sequence is in
\* progress: when it has returned and no call was issued since, the ready flag
\* is false, both handles are null, no attempt is memoized and no sequence is
\* still running.
C12_DisposeWaitsForInitialization ==
    \A c \in Calls : DisposeReturnedLast(c) =>
        /\ ~isInitialized
        /\ browser = NULL /\ page = NULL
        /\ initializationPromise = NULL
        /\ \A i \in Inits : ~InFlight(i)

\* The session as a teardown leaves it.
TornDown(s) == ~s.init /\ s.page = NULL /\ s.browser = NULL

C13_Step ==
    /\ \A c \in Calls : ckind'[c] = "dispose" => cpc'[c] # "failed"
    /\ \A c \in Calls :
          (ckind'[c] = "dispose" /\ cpc'[c] = "done" /\ cpc[c] # "done") =>
              /\ TornDown(Session)' /\ initializationPromise' = NULL
              /\ pst' = pst
              /\ \A b \in Handles : bconn[b] /\ ~bconn'[b] => b = browser
    /\ LET once == DisposeTeardown(Session)
           twice == DisposeTeardown(once)
       IN  /\ TornDown(CleanupPuppeteerResources(Session))
           /\ TornDown(once) /\ once.promise = NULL
           /\ twice = once
    /\ (nCalls > 0 /\ DisposeReturnedLast(nCalls)
            /\ TornDown(Session) /\ initializationPromise = NULL
            /\ nCalls' = nCalls + 1 /\ ckind'[nCalls'] = "dispose")
       => cpc'[nCalls'] = "done" /\ UNCHANGED <<sessVars, bconn, pst>>

\* C13: teardown never throws and is idempotent: dispose never fails, also
\* when the attempt it awaited rejected or when disconnect() rejects; the step
\* in which it tears down leaves the ready flag false, both handles null and
\* no attempt memoized, closes no page and takes down no connection but the
\* one the browser field held; a second teardown changes nothing and
\* detaches nothing.
C13_TeardownIdempotent == [][C13_Step]_vars

\* A dispose has returned after the attempt it awaited rejected, and the
\* browser of that attempt is still connected because its disconnect()
\* rejected.
C13_Witness ==
    \E c \in Calls :
        /\ ckind[c] = "dispose" /\ cpc[c] = "done"
        /\ cawait[c] # NULL /\ ipc[cawait[c]] = "rejected"
        /\ bstuck[cawait[c]] /\ bconn[cawait[c]]
        /\ TornDown(Session) /\ initializationPromise = NULL

\* C14: decoding inverts standard escaping: for every text, the text of an
\* entity included, decodeXmlEntities applied to the escaped text returns the
\* text.
C14_DecodeInvertsEscape ==
    (fin.fn = "decodeXmlEntities" /\ fout.done) => fout.value = fin.src

\* The content of a turn as the claim has it: the text blocks in order, every
\* other block as its placeholder.
RECURSIVE ExpectedBlocks(_)
ExpectedBlocks(bs) ==
    IF bs = <<>> THEN <<>>
    ELSE ExpectedBlocks(SubSeq(bs, 1, Len(bs) - 1)) \o
         (IF bs[Len(bs)].type = TextType
          THEN bs[Len(bs)].text
          ELSE <<"[", "U", "n", "s", "u", "p", "p", "o", "r", "t", "e", "d", " ">>
                  \o bs[Len(bs)].type \o <<"]">>)

ExpectedTurn(m) ==
    m.role \o <<":", " ">> \o
    (IF m.content.isString THEN m.content.text ELSE ExpectedBlocks(m.content.blocks))

RECURSIVE ExpectedTurns(_)
ExpectedTurns(ms) ==
    IF ms = <<>> THEN <<>>
    ELSE IF Len(ms) = 1 THEN ExpectedTurn(ms[1])
    ELSE ExpectedTurns(SubSeq(ms, 1, Len(ms) - 1)) \o <<"\n", "\n">> \o ExpectedTurn(ms[Len(ms)])

\* The prompt before any trimming: the system prompt and the separator when
\* the system prompt is non-empty, then the turns.
ExpectedUntrimmed(sp, ms) ==
    (IF sp = <<>> THEN <<>> ELSE sp \o <<"\n", "\n", "-", "-", "-", "\n", "\n">>)
        \o ExpectedTurns(ms)

\* C15 as stated: the prompt createMessage injects is the system prompt and
\* the separator (when the system prompt is non-empty), then the turns as
\* "<role>: <content>" joined by a blank line, non-text blocks rendered as
\* "[Unsupported <type>]", with trailing whitespace trimmed.
C15_PromptEncodingTrailingTrim ==
    (fin.fn = "fullPrompt" /\ fout.done) =>
        fout.value = TrimEnd(ExpectedUntrimmed(fin.systemPrompt, fin.messages))

\* C15 as amended: the same text with the whitespace at both ends trimmed.
C15_PromptEncoding ==
    (fin.fn = "fullPrompt" /\ fout.done) =>
        fout.value = TrimStart(TrimEnd(ExpectedUntrimmed(fin.systemPrompt, fin.messages)))

\* The prompt of a system prompt that starts with a blank and two turns, one
\* of them with an image block, has been encoded.
C15_Witness ==
    /\ fin.fn = "fullPrompt" /\ fout.done
    /\ fin.systemPrompt = <<" ", "S">>
    /\ fin.messages = <<[role |-> User, content |-> StringContent(<<"h", "i">>)],
                        [role |-> Assistant,
                         content |-> BlockContent(<<TextBlock(<<"a">>), OtherBlock(ImageType)>>)]>>
    /\ fout.value = <<"S", "\n", "\n", "-", "-", "-", "\n", "\n",
                      "u", "s", "e", "r", ":", " ", "h", "i", "\n", "\n",
                      "a", "s", "s", "i", "s", "t", "a", "n", "t", ":", " ", "a",
                      "[", "U", "n", "s", "u", "p", "p", "o", "r", "t", "e", "d", " ",
                      "i", "m", "a", "g", "e", "]">>

\* The number of characters in the text blocks of bs.
RECURSIVE TextLength(_)
TextLength(bs) ==
    IF bs = <<>> THEN 0
    ELSE (IF Head(bs).type = TextType THEN Len(Head(bs).text) ELSE 0) + TextLength(Tail(bs))

C16_Step ==
    (fin.fn = "countTokens" /\ ~fout.done /\ fout'.done) =>
        /\ LET L == IF fin.content.isArray THEN TextLength(fin.content.blocks) ELSE 0
           IN  /\ 4 * fout'.value >= L
               /\ 4 * (fout'.value - 1) < L
               /\ L = 37 => fout'.value = 10
               /\ L = 0 => fout'.value = 0
        /\ UNCHANGED <<sessVars, initVars, browserVars, pageVars, callVars, domVars>>

\* C16: countTokens returns the least integer not below a quarter of the
\* number of characters in the text blocks (10 for 37 characters, 0 for none),
\* and changes nothing of the session, the attempts, the handles or the calls.
C16_CountTokens == [][C16_Step]_vars

\* countTokens has returned 10 for an image block and a text block of 37
\* characters.
C16_Witness ==
    /\ fin.fn = "countTokens" /\ fout.done
    /\ fin.content.isArray
    /\ fin.content.blocks = <<OtherBlock(ImageType), TextBlock(TextOfLength(37))>>
    /\ fout.value = 10

\* C17: the ready flag is true only when the readiness wait of the sequence
\* that assigned the page now held has succeeded: never while that sequence
\* is still navigating or waiting, never after it failed.
C17_ReadyOnlyAfterReadinessWait ==
    (isInitialized /\ page # NULL) => ipc[page] \notin InFlightPcs \cup {"rejected"}

\* The positions of createMessage at which an operation on the captured page
\* (or on an element of it) is in flight.
PageOperationPcs ==
    {"focus", "count", "inject", "send", "stopOn", "stopOff", "ready", "poll", "roots",
     "panel", "text"}

C18_Step ==
    \A c \in Calls :
        (cpc'[c] \in PageOperationPcs /\ cpc'[c] # cpc[c]) => page' = cpage'[c]

\* C18: createMessage issues an operation only on the page the session still
\* holds: once a callback has dropped the page it captured, it issues no
\* further wait, evaluate, click or query on it.
C18_NoOperationOnDroppedPage == [][C18_Step]_vars

C20_NoLeakedConnection ==
    \A b \in Handles : (bconn[b] /\ ~bstuck[b]) => browser = b


\* C21: an invalidation callback changes session state only for the handle it
\* was registered on.  A 'disconnected' event of a browser that is not the one
\* held, or a 'close'/'error' event of a page that is not the one held, leaves
\* the ready flag and both handles unchanged; a 'close'/'error' event of the
\* page held clears the ready flag and the page handle and leaves the browser
\* handle unchanged.
C21_Step ==
    /\ \A b \in Handles :
         (bpend[b] /\ ~bpend'[b] /\ browser # b)
           => UNCHANGED <<isInitialized, browser, page>>
    /\ \A p \in Handles :
         (ppend[p] /\ ~ppend'[p] /\ page # p)
           => UNCHANGED <<isInitialized, browser, page>>
    /\ \A p \in Handles :
         (ppend[p] /\ ~ppend'[p] /\ page = p)
           => ~isInitialized' /\ page' = NULL /\ browser' = browser
C21_CallbackOnlyForItsHandle == [][C21_Step]_vars

=============================================================================
